---- MODULE Spec2Model ----
(***************************************************************************)
(* Model of dd_psychopy_non-ado.py: the delay discounting session made of  *)
(* a practice block (random designs) and a main block (staircase designs), *)
(* with trial-by-trial recording into a DataFrame that is rewritten to a   *)
(* CSV file after each trial.                                              *)
(*                                                                         *)
(* Numbers.  Delays (weeks) and rewards (dollars) are floats in the        *)
(* script.  Every value the script computes is a multiple of 1/1000 (the   *)
(* grid has three decimals, the staircase only adds, subtracts and halves  *)
(* 200 at most five times), so a quantity x is represented by the integer  *)
(* x * Scale and the float operations + - / 2 are exact on it.             *)
(***************************************************************************)
EXTENDS Integers, Sequences, FiniteSets, TLC

\* ------------------------------------------------------------------------
\* Bounds of the model
\* ------------------------------------------------------------------------

\* Largest 'Number of practices' entered in the dialog.
MaxPrac == 1

\* Largest size of a session of the participant "free" (random sides, any
\* key on any trial): a main trial counts for one, a practice trial for two.
MaxSession == 4

\* Largest size of a session of the participant "keys" (any key on any
\* trial, sides alternating), counted in the same way.
MaxKeys == 7

\* Largest 'Number of trials' of a session of a scripted participant.
MaxLong == 43

\* Number of grid designs engine.get_design('random') is drawn from.
MaxGrid == 2

\* ------------------------------------------------------------------------
\* Program constants
\* ------------------------------------------------------------------------

Scale == 1000

\* Number of trials the staircase runs for one `t_ll` value (trial % 6).
BlockLen == 6

\* delays = [1, 2, 4.3, 26, 52, 156, 520]
delays == <<1000, 2000, 4300, 26000, 52000, 156000, 520000>>

\* grid_design['t_ll']
grid_t_ll ==
  <<430, 714, 1000, 2000, 3000, 4300, 6440, 8600, 10800, 12900,
    17200, 21500, 26000, 52000, 104000, 156000, 260000, 520000>>

\* grid_design['r_ss'] = np.arange(12.5, 800, 12.5): 12.5, 25, ..., 787.5
grid_r_ss == [i \in 1..63 |-> 12500 * i]

\* The value of a variable that has not been assigned yet.
Undef == -1

NoDesign == [t_ss |-> Undef, t_ll |-> Undef, r_ss |-> Undef, r_ll |-> Undef]

\* A blank cell of the DataFrame (NaN).
NaN == <<>>

\* A grid whose r_ss axis includes the end point 800.
GridDesignInclusive(k) ==
  [t_ss |-> 0,
   t_ll |-> grid_t_ll[((k - 1) % Len(grid_t_ll)) + 1],
   r_ss |-> grid_r_ss[Len(grid_r_ss) - ((k - 1) % Len(grid_r_ss))] + 12500,
   r_ll |-> 800 * Scale]

\* The k-th design of an enumeration of the design grid.
GridDesign(k) ==
  [t_ss |-> 0,
   t_ll |-> grid_t_ll[((k - 1) % Len(grid_t_ll)) + 1],
   r_ss |-> grid_r_ss[Len(grid_r_ss) - ((k - 1) % Len(grid_r_ss))],
   r_ll |-> 800 * Scale]

\* engine.get_design('random'): some design of the grid.
RandomDesigns == { GridDesign(k) : k \in 1..MaxGrid }

\* ------------------------------------------------------------------------
\* State
\* ------------------------------------------------------------------------

VARIABLES
  participant,    \* who presses the keys: "free", "keys" or a scripted one
  n_prac,         \* int(info['Number of practices'])
  n_trial,        \* int(info['Number of trials'])
  phase,          \* "prac" (practice block) or "main" (main block)
  pc,             \* position inside the current loop iteration
  trial,          \* loop variable of the current block, 0-based
  design,         \* the `design` dictionary
  delta,          \* the `delta` variable (times Scale)
  is_ll_on_left,  \* values returned by the last run_trial
  key_left,
  response,
  rt,
  engine_obs,     \* observations given to engine.update, in order
  df_data,        \* rows of the DataFrame `df_data`
  file,           \* rows of the CSV file at path_output
  presented       \* log of what run_trial showed and returned, in order

vars == <<participant, n_prac, n_trial, phase, pc, trial, design, delta,
          is_ll_on_left, key_left, response, rt, engine_obs, df_data, file,
          presented>>

Scripted == {"all_ll", "all_ss", "alternate"}

\* ------------------------------------------------------------------------
\* Functions of the script
\* ------------------------------------------------------------------------

\* A response that only sees the choice of an LL option shown on the left.
ResponseLeftOnly(ll_left, k_left) ==
  IF k_left = 1 /\ ll_left = 1 THEN 1 ELSE 0

\* run_trial: response is 1 when the pressed side shows the LL option.
Response(ll_left, k_left) ==
  IF (k_left = 1 /\ ll_left = 1) \/ (k_left # 1 /\ ll_left # 1) THEN 1 ELSE 0

\* The pairs <<is_ll_on_left, key_left>> a trial can produce: the side of
\* the LL option is random, the key is the participant's.  With "keys" the
\* sides alternate and the key is free (both responses on every trial); a
\* scripted participant and random generator produce one pair per trial.
Outcomes(p, t) ==
  CASE p = "free"      -> {<<l, k>> : l \in {0, 1}, k \in {0, 1}}
    [] p = "keys"      -> {<<t % 2, k>> : k \in {0, 1}}
    [] p = "all_ll"    -> {<<t % 2, t % 2>>}
    [] p = "all_ss"    -> {<<t % 2, 1 - (t % 2)>>}
    [] p = "alternate" -> {<<1, t % 2>>}

\* timer.getTime(): the reaction time, abstracted to one value.
ReactionTime == 0

\* A block test that is true on the first trial only.
IsBlockStartFirstOnly(t) == t = 0

\* A block test that misses the first trial of the main loop.
IsBlockStartAfterFirst(t) == t % BlockLen = 0 /\ t > 0

\* trial % 6 == 0
IsBlockStart(t) == t % BlockLen = 0

\* A block start that begins the staircase at 600.
BlockStartDesignHigh(t) ==
  [t_ss |-> 0,
   t_ll |-> delays[(t \div BlockLen) + 1],
   r_ss |-> 600 * Scale,
   r_ll |-> 800 * Scale]

\* The design dictionary built at the start of a block.
BlockStartDesign(t) ==
  [t_ss |-> 0,
   t_ll |-> delays[(t \div BlockLen) + 1],
   r_ss |-> 400 * Scale,
   r_ll |-> 800 * Scale]

\* An adjustment with the two branches exchanged.
AdjustDesignSwapped(d, resp, dl) ==
  IF resp = 1 THEN [d EXCEPT !.r_ss = @ - dl]
              ELSE [d EXCEPT !.r_ss = @ + dl]

\* design['r_ss'] = design['r_ss'] +/- delta, by the previous response.
AdjustDesign(d, resp, dl) ==
  IF resp = 1 THEN [d EXCEPT !.r_ss = @ + dl]
              ELSE [d EXCEPT !.r_ss = @ - dl]

\* A step size that is never cut.
HalveNot(dl) == dl

\* A step size cut to a quarter.
HalveTwice(dl) == dl \div 4

\* delta = delta / 2
Halve(dl) == dl \div 2

\* An update that leaves the posterior as it was.
EngineUpdatedNot(obs, d, resp) == obs

\* engine.update(design, response): the engine's posterior is a function of
\* the observations it was given; the model keeps the observations.
EngineUpdated(obs, d, resp) ==
  Append(obs, [t_ll |-> d.t_ll, r_ss |-> d.r_ss, response |-> resp])

\* engine.post_mean[i] / engine.post_sd[i]: a summary of the posterior, that
\* is of the observations: how many, and the last one.
PostStat(name, obs) ==
  IF obs = <<>> THEN <<name, 0>>
  ELSE <<name, Len(obs), obs[Len(obs)].t_ll, obs[Len(obs)].r_ss,
         obs[Len(obs)].response>>

\* A practice row labelled like a main row.
PracRecordMainLabel(t, d, l, k, resp, time) ==
  [block |-> "main", trial |-> t + 1,
   t_ss |-> d.t_ss, t_ll |-> d.t_ll, r_ss |-> d.r_ss, r_ll |-> d.r_ll,
   is_ll_on_left |-> l, key_left |-> k, response |-> resp, rt |-> time,
   mean_k |-> NaN, mean_tau |-> NaN, sd_k |-> NaN, sd_tau |-> NaN]

\* The row appended in the practice block.
PracRecord(t, d, l, k, resp, time) ==
  [block |-> "prac", trial |-> t + 1,
   t_ss |-> d.t_ss, t_ll |-> d.t_ll, r_ss |-> d.r_ss, r_ll |-> d.r_ll,
   is_ll_on_left |-> l, key_left |-> k, response |-> resp, rt |-> time,
   mean_k |-> NaN, mean_tau |-> NaN, sd_k |-> NaN, sd_tau |-> NaN]

\* A main row limited to the columns the empty DataFrame was created with.
MainRecordNoSd(t, d, l, k, resp, time, obs) ==
  [block |-> "main", trial |-> t + 1,
   t_ss |-> d.t_ss, t_ll |-> d.t_ll, r_ss |-> d.r_ss, r_ll |-> d.r_ll,
   is_ll_on_left |-> l, key_left |-> k, response |-> resp, rt |-> time,
   mean_k |-> PostStat("mean_k", obs), mean_tau |-> PostStat("mean_tau", obs),
   sd_k |-> NaN, sd_tau |-> NaN]

\* The row appended in the main block.
MainRecord(t, d, l, k, resp, time, obs) ==
  [block |-> "main", trial |-> t + 1,
   t_ss |-> d.t_ss, t_ll |-> d.t_ll, r_ss |-> d.r_ss, r_ll |-> d.r_ll,
   is_ll_on_left |-> l, key_left |-> k, response |-> resp, rt |-> time,
   mean_k |-> PostStat("mean_k", obs), mean_tau |-> PostStat("mean_tau", obs),
   sd_k |-> PostStat("sd_k", obs), sd_tau |-> PostStat("sd_tau", obs)]

\* An append that puts the new row first.
DfAppendFirst(df, row) == <<row>> \o df

\* df_data.append(row, ignore_index=True)
DfAppend(df, row) == Append(df, row)

\* A flush that is one row late.
ToCsvLate(df) == SubSeq(df, 1, Len(df) - 1)

\* df_data.to_csv(path_output, index=False): the rows written to the file.
ToCsv(df) == df

\* A practice loop that updates the engine like the main loop does.
AfterRunTrialAlwaysUpdate(ph) == "update"

\* The statement that follows run_trial: the row append in the practice
\* loop, engine.update in the main loop.
AfterRunTrial(ph) == IF ph = "prac" THEN "append" ELSE "update"

\* ------------------------------------------------------------------------
\* Initial states
\* ------------------------------------------------------------------------

Init ==
  /\ \/ /\ participant = "free"
        /\ n_prac \in 0..MaxPrac
        /\ n_trial \in 0..(MaxSession - 2 * n_prac)
     \/ /\ participant = "keys"
        /\ n_prac \in 0..MaxPrac
        /\ n_trial \in 0..(MaxKeys - 2 * n_prac)
     \/ /\ participant \in Scripted
        /\ n_prac \in 0..MaxPrac
        /\ n_trial \in (BlockLen * Len(delays) - 1)..MaxLong
  /\ phase = "prac"
  /\ pc = "head"
  /\ trial = 0
  /\ design = NoDesign
  /\ delta = 200 * Scale
  /\ is_ll_on_left = Undef
  /\ key_left = Undef
  /\ response = Undef
  /\ rt = Undef
  /\ engine_obs = <<>>
  /\ df_data = <<>>
  /\ file = <<>>
  /\ presented = <<>>

\* ------------------------------------------------------------------------
\* Steps of the script
\* ------------------------------------------------------------------------

\* for trial in range(n_prac): design = engine.get_design('random')
PracDesign ==
  /\ pc = "head" /\ phase = "prac" /\ trial < n_prac
  /\ \E d \in RandomDesigns : design' = d
  /\ pc' = "run"
  /\ UNCHANGED <<participant, n_prac, n_trial, phase, trial, delta,
                 is_ll_on_left, key_left, response, rt, engine_obs, df_data,
                 file, presented>>

\* The practice loop ends; instruction 3 and the countdown are shown and the
\* main loop starts with trial = 0.
PracEnd ==
  /\ pc = "head" /\ phase = "prac" /\ trial >= n_prac
  /\ phase' = "main"
  /\ trial' = 0
  /\ UNCHANGED <<participant, n_prac, n_trial, pc, design, delta,
                 is_ll_on_left, key_left, response, rt, engine_obs, df_data,
                 file, presented>>

\* for trial in range(n_trial): the staircase chooses the design.
MainDesign ==
  /\ pc = "head" /\ phase = "main" /\ trial < n_trial
  /\ IF IsBlockStart(trial)
       THEN /\ (trial \div BlockLen) + 1 <= Len(delays)
            /\ design' = BlockStartDesign(trial)
            /\ delta' = 200 * Scale
       ELSE /\ design' = AdjustDesign(design, response, delta)
            /\ delta' = Halve(delta)
  /\ pc' = "run"
  /\ UNCHANGED <<participant, n_prac, n_trial, phase, trial,
                 is_ll_on_left, key_left, response, rt, engine_obs, df_data,
                 file, presented>>

\* delays[trial // 6] with trial // 6 >= len(delays) raises IndexError.
MainIndexError ==
  /\ pc = "head" /\ phase = "main" /\ trial < n_trial
  /\ IsBlockStart(trial)
  /\ (trial \div BlockLen) + 1 > Len(delays)
  /\ pc' = "index_error"
  /\ UNCHANGED <<participant, n_prac, n_trial, phase, trial, design, delta,
                 is_ll_on_left, key_left, response, rt, engine_obs, df_data,
                 file, presented>>

\* The main loop ends; instruction 4 is shown and the window is closed.
MainEnd ==
  /\ pc = "head" /\ phase = "main" /\ trial >= n_trial
  /\ pc' = "done"
  /\ UNCHANGED <<participant, n_prac, n_trial, phase, trial, design, delta,
                 is_ll_on_left, key_left, response, rt, engine_obs, df_data,
                 file, presented>>

\* is_ll_on_left, key_left, response, rt = run_trial(design)
RunTrial ==
  /\ pc = "run"
  /\ \E o \in Outcomes(participant, trial) :
       /\ is_ll_on_left' = o[1]
       /\ key_left' = o[2]
       /\ response' = Response(o[1], o[2])
       /\ rt' = ReactionTime
       /\ presented' = Append(presented,
            [block |-> phase, trial |-> trial + 1, design |-> design,
             is_ll_on_left |-> o[1], key_left |-> o[2],
             response |-> Response(o[1], o[2])])
  /\ pc' = AfterRunTrial(phase)
  /\ UNCHANGED <<participant, n_prac, n_trial, phase, trial, design, delta,
                 engine_obs, df_data, file>>

\* engine.update(design, response)
EngineUpdate ==
  /\ pc = "update"
  /\ engine_obs' = EngineUpdated(engine_obs, design, response)
  /\ pc' = "append"
  /\ UNCHANGED <<participant, n_prac, n_trial, phase, trial, design, delta,
                 is_ll_on_left, key_left, response, rt, df_data, file,
                 presented>>

\* df_data = df_data.append(pd.Series({...}), ignore_index=True)
AppendRecord ==
  /\ pc = "append"
  /\ df_data' = DfAppend(df_data,
       IF phase = "prac"
         THEN PracRecord(trial, design, is_ll_on_left, key_left, response, rt)
         ELSE MainRecord(trial, design, is_ll_on_left, key_left, response, rt,
                         engine_obs))
  /\ pc' = "save"
  /\ UNCHANGED <<participant, n_prac, n_trial, phase, trial, design, delta,
                 is_ll_on_left, key_left, response, rt, engine_obs, file,
                 presented>>

\* df_data.to_csv(path_output, index=False), first half: the file is opened
\* for writing, which truncates it.
ToCsvOpen ==
  /\ pc = "save"
  /\ file' = <<>>
  /\ pc' = "write"
  /\ UNCHANGED <<participant, n_prac, n_trial, phase, trial, design, delta,
                 is_ll_on_left, key_left, response, rt, engine_obs, df_data,
                 presented>>

\* df_data.to_csv, second half: all rows are written and the file is closed;
\* the loop moves to its next iteration.
ToCsvWrite ==
  /\ pc = "write"
  /\ file' = ToCsv(df_data)
  /\ trial' = trial + 1
  /\ pc' = "head"
  /\ UNCHANGED <<participant, n_prac, n_trial, phase, design, delta,
                 is_ll_on_left, key_left, response, rt, engine_obs, df_data,
                 presented>>

\* run_trial raises (or the escape key calls core.quit while it waits for a
\* key): the script stops.
PresenterFails ==
  /\ pc = "run"
  /\ pc' = "halted"
  /\ UNCHANGED <<participant, n_prac, n_trial, phase, trial, design, delta,
                 is_ll_on_left, key_left, response, rt, engine_obs, df_data,
                 file, presented>>

\* engine.get_design or engine.update raises: the script stops.
EstimatorFails ==
  /\ \/ pc = "update"
     \/ pc = "head" /\ phase = "prac" /\ trial < n_prac
  /\ pc' = "halted"
  /\ UNCHANGED <<participant, n_prac, n_trial, phase, trial, design, delta,
                 is_ll_on_left, key_left, response, rt, engine_obs, df_data,
                 file, presented>>

Next ==
  \/ PracDesign
  \/ PracEnd
  \/ MainDesign
  \/ MainIndexError
  \/ MainEnd
  \/ RunTrial
  \/ EngineUpdate
  \/ AppendRecord
  \/ ToCsvOpen
  \/ ToCsvWrite
  \/ PresenterFails
  \/ EstimatorFails

Spec == Init /\ [][Next]_vars

TypeOK ==
  /\ pc \in {"head", "run", "update", "append", "save", "write", "done",
             "halted", "index_error"}
  /\ phase \in {"prac", "main"}
  /\ trial \in 0..MaxLong + 1
  /\ Len(file) <= Len(df_data)

\* ------------------------------------------------------------------------
\* Properties
\* ------------------------------------------------------------------------

RECURSIVE Pow2(_)
Pow2(i) == IF i = 0 THEN 1 ELSE 2 * Pow2(i - 1)

\* The trials of the main block that run_trial has shown, in order: the
\* entry at position t is the main trial of 0-based index t - 1.
MainShown == SelectSeq(presented, LAMBDA e : e.block = "main")

\* The practice trials that run_trial has shown.
PracShown == SelectSeq(presented, LAMBDA e : e.block = "prac")

\* In-block position of the main trial of 0-based index i.
PosInBlock(i) == i % BlockLen

\* 200 / 2^i, exact.
StepSize(i) == (200 * Scale) \div Pow2(i)

StepExact(i) == (200 * Scale) % Pow2(i) = 0

\* Sum over the in-block positions below j of the signed steps of the block
\* that starts at 0-based main trial b.
RECURSIVE SignedSteps(_, _, _)
SignedSteps(shown, b, j) ==
  IF j = 0 THEN 0
  ELSE SignedSteps(shown, b, j - 1)
       + (IF shown[b + j].response = 1 THEN StepSize(j - 1)
                                       ELSE 0 - StepSize(j - 1))

\* The r_ss values shown at the first n positions of the block that starts
\* at main trial b.
BlockRss(shown, b, n) == [j \in 1..n |-> shown[b + j].design.r_ss]

\* C1: within a 6-trial block of the main phase the r_ss shown at in-block
\* position j is 400 plus the sum over i < j of +200/2^i (response 1 at
\* position i) or -200/2^i (response 0), exactly; after the responses
\* 1,1,1,1,1 the block has shown 400, 600, 700, 750, 775, 787.5.
C1_StaircaseClosedForm ==
  \A t \in 1..Len(MainShown) :
    LET b == (t - 1) - PosInBlock(t - 1)
        j == PosInBlock(t - 1)
    IN /\ StepExact(j)
       /\ MainShown[t].design.r_ss = 400 * Scale + SignedSteps(MainShown, b, j)
       /\ (\A i \in 1..j : MainShown[b + i].response = 1)
            => BlockRss(MainShown, b, j + 1)
                 = SubSeq(<<400000, 600000, 700000, 750000, 775000, 787500>>,
                          1, j + 1)

C1_Witness ==
  /\ Len(MainShown) >= BlockLen
  /\ [i \in 1..BlockLen |-> MainShown[i].response] = <<1, 1, 1, 1, 1, 0>>
  /\ BlockRss(MainShown, 0, BlockLen)
       = <<400000, 600000, 700000, 750000, 775000, 787500>>

\* The design of the current main trial has been chosen.
MainDesignChosen ==
  phase = "main" /\ pc \in {"run", "update", "append", "save", "write"}

\* C2: once the design of the main trial at in-block position j has been
\* chosen, delta is 200 / 2^j: 200 on the first trial of a block, half the
\* previous value on every other trial, whatever the responses were.
C2_DeltaClosedForm ==
  /\ MainDesignChosen
       => /\ delta = StepSize(PosInBlock(trial))
          /\ StepExact(PosInBlock(trial))
          /\ PosInBlock(trial) = 0 => delta = 200 * Scale
  /\ (phase = "main" /\ pc = "head" /\ trial > 0)
       => delta = StepSize(PosInBlock(trial - 1))

C2_Witness ==
  /\ MainDesignChosen
  /\ trial = BlockLen + 1
  /\ delta = 100 * Scale
  /\ \E i \in 1..BlockLen : MainShown[i].response = 0
  /\ \E i \in 1..BlockLen : MainShown[i].response = 1

\* C3: every main trial whose 0-based index is a multiple of 6 is shown
\* with r_ss = 400, whatever happened in earlier blocks or in the practice.
C3_BlockStartsAt400 ==
  /\ \A t \in 1..Len(MainShown) :
       PosInBlock(t - 1) = 0 => MainShown[t].design.r_ss = 400 * Scale
  /\ (MainDesignChosen /\ PosInBlock(trial) = 0) => design.r_ss = 400 * Scale

C3_Witness ==
  /\ Len(PracShown) >= 1
  /\ Len(MainShown) > BlockLen
  /\ MainShown[BlockLen].design.r_ss # 400 * Scale
  /\ MainShown[BlockLen + 1].design.r_ss = 400 * Scale

\* Number of rows of a frame with the given block label.
CountBlock(rows, label) == Len(SelectSeq(rows, LAMBDA r : r.block = label))

\* Number of main trials shown with the given t_ll.
CountDelay(v) == Len(SelectSeq(MainShown, LAMBDA e : e.design.t_ll = v))

\* C4: the main trial of 0-based index i is shown with t_ll = delays[i div 6]
\* (0-based), so t_ll changes exactly at the trials with i mod 6 = 0, and
\* when the main phase is over each delay value that was used was used for
\* exactly 6 consecutive trials, none repeated or skipped.
C4_DelaysInOrderSixEach ==
  /\ \A t \in 1..Len(MainShown) :
       /\ ((t - 1) \div BlockLen) + 1 <= Len(delays)
       /\ MainShown[t].design.t_ll = delays[((t - 1) \div BlockLen) + 1]
       /\ t > 1 => ( MainShown[t].design.t_ll # MainShown[t - 1].design.t_ll
                       <=> PosInBlock(t - 1) = 0 )
  /\ pc = "done"
       => \A b \in 1..Len(delays) : CountDelay(delays[b]) \in {0, BlockLen}

\* The part of C4 that the script satisfies: the delay of every main trial
\* shown is delays[i div 6], changing exactly at the block starts.
DelaysInOrder ==
  \A t \in 1..Len(MainShown) :
    /\ ((t - 1) \div BlockLen) + 1 <= Len(delays)
    /\ MainShown[t].design.t_ll = delays[((t - 1) \div BlockLen) + 1]

\* C5: in a main trial engine.update(design, response) runs after run_trial
\* returned and before the posterior is read for the row, so the posterior
\* values in the row of main trial n (1-based) are those after exactly n
\* updates, the n-th being the design and response of that row.
C5_UpdateBeforePosteriorRead ==
  /\ \A i \in 1..Len(df_data) :
       df_data[i].block = "main" =>
         LET r == df_data[i]
             post(name) == <<name, r.trial, r.t_ll, r.r_ss, r.response>>
         IN /\ r.mean_k = post("mean_k")
            /\ r.mean_tau = post("mean_tau")
            /\ r.sd_k = post("sd_k")
            /\ r.sd_tau = post("sd_tau")
  /\ (phase = "main" /\ pc \in {"head", "run", "update"})
       => Len(engine_obs) = Len(MainShown) - (IF pc = "update" THEN 1 ELSE 0)
  /\ (phase = "main" /\ pc = "append")
       => /\ Len(engine_obs) = trial + 1
          /\ CountBlock(df_data, "main") = trial
          /\ engine_obs[trial + 1]
               = [t_ll |-> design.t_ll, r_ss |-> design.r_ss,
                  response |-> response]

C5_Witness ==
  /\ Len(df_data) >= 3
  /\ df_data[3].block = "main"
  /\ df_data[3].trial = 3
  /\ df_data[3].mean_k[2] = 3
  /\ df_data[3].mean_k[5] # df_data[2].mean_k[5]

\* The rows of a frame or file are the rows of the trials shown: one row per
\* trial, in order, with that trial's block, index, design and outcome.
RowsMatch(rows, shown) ==
  /\ Len(rows) = Len(shown)
  /\ \A i \in 1..Len(rows) :
       /\ rows[i].block = shown[i].block
       /\ rows[i].trial = shown[i].trial
       /\ rows[i].t_ss = shown[i].design.t_ss
       /\ rows[i].t_ll = shown[i].design.t_ll
       /\ rows[i].r_ss = shown[i].design.r_ss
       /\ rows[i].r_ll = shown[i].design.r_ll
       /\ rows[i].is_ll_on_left = shown[i].is_ll_on_left
       /\ rows[i].key_left = shown[i].key_left
       /\ rows[i].response = shown[i].response

\* A trial is about to get its design, or has it and is not yet shown.
AtTrialStart ==
  \/ pc = "run"
  \/ pc = "head" /\ phase = "prac" /\ trial < n_prac
  \/ pc = "head" /\ phase = "main" /\ trial < n_trial

\* C6: when the design of a trial (practice or main) is obtained, the file
\* holds exactly the rows of all trials completed before, in order, and no
\* completed trial has its row in memory only.
C6_FlushedBeforeNextTrial ==
  AtTrialStart
    => /\ file = df_data
       /\ RowsMatch(file, presented)
       /\ Len(file) = (IF phase = "main" THEN n_prac ELSE 0) + trial

C6_Witness ==
  /\ pc = "run"
  /\ phase = "main"
  /\ trial = 2
  /\ n_prac = 1
  /\ Len(file) = 3
  /\ file[1].block = "prac"
  /\ file[3].block = "main"

\* Number of trials completed before the current one.
CompletedBefore == (IF phase = "main" THEN n_prac ELSE 0) + trial

\* C7: when the presenter or the estimator fails during trial k of a phase,
\* the session stops for good and the file holds exactly the rows of the
\* trials before it (all rows of the earlier phase and k - 1 rows of this
\* one), unaltered, and no row for trial k.
C7_FailureKeepsEarlierRows ==
  pc = "halted"
    => /\ Len(file) = CompletedBefore
       /\ RowsMatch(file, SubSeq(presented, 1, CompletedBefore))
       /\ CountBlock(file, phase) = trial
       /\ \A i \in 1..Len(file) :
            ~(file[i].block = phase /\ file[i].trial = trial + 1)
       /\ Len(presented) \in {CompletedBefore, CompletedBefore + 1}
       /\ ~ENABLED Next

C7_Witness ==
  /\ pc = "halted"
  /\ phase = "main"
  /\ trial = 2
  /\ n_prac = 1
  /\ Len(file) = 3
  /\ Len(presented) = 4

\* The main loop is over: it ran to its end or stopped on the IndexError.
MainPhaseOver == pc \in {"done", "index_error"}

\* C8: whatever number of main trials is configured, when no collaborator
\* fails the main phase ends with as many rows labelled main as trials
\* were requested.
C8_MainRowsEqualRequested ==
  MainPhaseOver
    => /\ CountBlock(df_data, "main") = n_trial
       /\ CountBlock(file, "main") = n_trial

\* The configured number of main trials is not a whole number of 6-trial
\* blocks, or needs more blocks than there are delay values.
Misconfigured ==
  n_trial % BlockLen # 0 \/ n_trial > BlockLen * Len(delays)

\* C9: a main trial count that is not aligned to the 6-trial blocks or that
\* exceeds 6 x 7 = 42 is detected before the main phase starts: no main
\* design is shown and no main row is written.
C9_MisconfiguredNeverStarts ==
  Misconfigured
    => /\ MainShown = <<>>
       /\ CountBlock(df_data, "main") = 0
       /\ CountBlock(file, "main") = 0
       /\ ~(phase = "main" /\ pc \in {"run", "update", "append", "save",
                                      "write", "index_error"})

\* The r_ss of a design is negative or above r_ll.
Drifted(d) == d.r_ss < 0 \/ d.r_ss > d.r_ll

\* C10: a streak of identical responses makes the staircase show a design
\* whose r_ss is negative or greater than r_ll = 800: a session in which
\* every response is the same has shown such a design when it is over.
C10_StreakDrifts ==
  (participant \in {"all_ll", "all_ss"} /\ MainPhaseOver)
    => \E t \in 1..Len(MainShown) : Drifted(MainShown[t].design)

\* C10 as the script behaves: for every sequence of responses every design
\* the staircase shows has 12.5 <= r_ss <= 787.5, so 0 < r_ss < r_ll = 800;
\* a block of identical responses ends exactly at 787.5 or at 12.5.
C10_StaircaseStaysInside ==
  /\ \A t \in 1..Len(MainShown) :
       LET d == MainShown[t].design
       IN /\ 12500 <= d.r_ss /\ d.r_ss <= 787500
          /\ 0 < d.r_ss /\ d.r_ss < d.r_ll
          /\ d.r_ll = 800 * Scale
          /\ ~Drifted(d)
  /\ MainDesignChosen => (12500 <= design.r_ss /\ design.r_ss <= 787500)

C10_Witness ==
  /\ participant = "all_ll"
  /\ Len(MainShown) >= 2 * BlockLen
  /\ \A t \in 1..(2 * BlockLen) : MainShown[t].response = 1
  /\ MainShown[BlockLen].design.r_ss = 787500
  /\ MainShown[2 * BlockLen].design.r_ss = 787500

\* The four posterior cells of a row.
PosteriorCells(r) == <<r.mean_k, r.mean_tau, r.sd_k, r.sd_tau>>

\* C11: every row of a main trial has non-blank mean_k, mean_tau, sd_k and
\* sd_tau, and every row of a practice trial has all four blank, in the
\* DataFrame and in the file, after any number of trials of either phase.
C11_PosteriorCellsByPhase ==
  \A rows \in {df_data, file} :
    \A i \in 1..Len(rows) :
      /\ presented[i].block = "main"
           => \A c \in 1..4 : PosteriorCells(rows[i])[c] # NaN
      /\ presented[i].block = "prac"
           => \A c \in 1..4 : PosteriorCells(rows[i])[c] = NaN

C11_Witness ==
  /\ Len(file) >= 3
  /\ presented[1].block = "prac"
  /\ PosteriorCells(file[1]) = <<NaN, NaN, NaN, NaN>>
  /\ presented[3].block = "main"
  /\ file[3].sd_tau # NaN
  /\ file[3].mean_k # NaN

\* C12: the recorded response depends on (is_ll_on_left, key_left) only:
\* it is 1 exactly when key_left = is_ll_on_left and 0 otherwise, for all
\* four combinations.
C12_ResponseIsSideMatch ==
  /\ \A i \in 1..Len(presented) :
       LET e == presented[i]
       IN /\ e.is_ll_on_left \in {0, 1} /\ e.key_left \in {0, 1}
          /\ e.response \in {0, 1}
          /\ e.response = 1 <=> e.key_left = e.is_ll_on_left
  /\ \A i \in 1..Len(df_data) :
       /\ df_data[i].response \in {0, 1}
       /\ df_data[i].response = 1
            <=> df_data[i].key_left = df_data[i].is_ll_on_left

C12_Witness ==
  /\ Len(df_data) >= 4
  /\ { <<df_data[i].is_ll_on_left, df_data[i].key_left, df_data[i].response>>
         : i \in 1..4 }
       = { <<0, 0, 1>>, <<0, 1, 0>>, <<1, 0, 0>>, <<1, 1, 1>> }

\* The observation engine.update receives for a trial that was shown.
ObservationOf(e) ==
  [t_ll |-> e.design.t_ll, r_ss |-> e.design.r_ss, response |-> e.response]

\* C13: engine.update is never called in the practice phase; at every point
\* the number of update calls is the number of main trials whose response
\* has been processed (zero until the main phase begins), and the i-th call
\* was made with the design shown and the response observed in main trial i.
C13_UpdatesAreMainTrials ==
  /\ phase = "prac" => engine_obs = <<>>
  /\ Len(MainShown) = 0 => engine_obs = <<>>
  /\ Len(engine_obs) <= Len(MainShown)
  /\ Len(engine_obs) >= Len(MainShown) - 1
  /\ pc \in {"head", "run", "append", "save", "write", "done", "index_error"}
       => Len(engine_obs) = Len(MainShown)
  /\ pc = "update" => Len(engine_obs) = Len(MainShown) - 1
  /\ \A i \in 1..Len(engine_obs) : engine_obs[i] = ObservationOf(MainShown[i])

C13_Witness ==
  /\ Len(PracShown) >= 1
  /\ Len(engine_obs) = 2
  /\ Len(presented) = 3
  /\ pc = "append"
  /\ engine_obs[2] = ObservationOf(presented[3])
  /\ engine_obs[2] # engine_obs[1]

\* C14: at every moment, also while a flush is in progress, the file is a
\* complete snapshot of the rows recorded so far, missing at most the row of
\* the trial in flight: once a trial has been flushed a reader never finds
\* the file empty or short of an earlier row.
C14_FileAlwaysSnapshot ==
  /\ Len(file) <= Len(df_data)
  /\ file = SubSeq(df_data, 1, Len(file))
  /\ Len(file) >= Len(df_data) - 1
  /\ CompletedBefore >= 1 => file # <<>>

\* A design keeps the order of the two options: sooner and smaller first.
WellOrdered(d) ==
  /\ d.t_ss = 0
  /\ d.r_ll = 800 * Scale
  /\ d.t_ss < d.t_ll
  /\ d.r_ss < d.r_ll

\* C15: every design shown in the session, practice or main, has
\* t_ss < t_ll and r_ss < r_ll, with t_ss = 0 and r_ll = 800; so has every
\* point of the design grid the practice designs are drawn from.
C15_DesignsWellOrdered ==
  /\ \A i \in 1..Len(presented) : WellOrdered(presented[i].design)
  /\ pc = "run" => WellOrdered(design)
  /\ \A i \in 1..Len(grid_t_ll) : 0 < grid_t_ll[i]
  /\ \A j \in 1..Len(grid_r_ss) : grid_r_ss[j] < 800 * Scale

C15_Witness ==
  /\ Len(PracShown) >= 1
  /\ Len(MainShown) >= BlockLen
  /\ PracShown[1].design.r_ss = 787500
  /\ MainShown[BlockLen].design.r_ss = 787500
  /\ MainShown[BlockLen].design.t_ll = 1000

\* C16 as stated: a practice row is labelled `practice` and a main row
\* `main`.
C16_LabelsPracticeMain ==
  \A i \in 1..Len(df_data) :
    /\ presented[i].block = "prac" => df_data[i].block = "practice"
    /\ presented[i].block = "main" => df_data[i].block = "main"

\* The labels and their order in a frame: `prac` for the rows of practice
\* trials, `main` for the rows of main trials, no `prac` row after a `main`
\* row.
LabelsInOrder(rows) ==
  /\ \A i \in 1..Len(rows) :
       /\ rows[i].block \in {"prac", "main"}
       /\ rows[i].block = presented[i].block
       /\ rows[i].block = "prac" => i <= n_prac
       /\ rows[i].block = "main" => i > n_prac
  /\ \A i, j \in 1..Len(rows) :
       (rows[i].block = "main" /\ rows[j].block = "prac") => j < i

\* C16 as the script behaves: the block label of a row is `prac` for a
\* practice trial and `main` for a main trial; all `prac` rows precede all
\* `main` rows; a row once appended is never changed or removed by a later
\* step.
C16_LabelsOrderAppendOnly ==
  /\ [](LabelsInOrder(df_data) /\ LabelsInOrder(file))
  /\ [][/\ Len(df_data') >= Len(df_data)
        /\ SubSeq(df_data', 1, Len(df_data)) = df_data]_vars

C16_Witness ==
  /\ n_prac = 1
  /\ Len(df_data) = 3
  /\ df_data[1].block = "prac"
  /\ df_data[2].block = "main"
  /\ df_data[3].block = "main"
  /\ pc = "save"

\* The values of a grid axis.
AxisValues(axis) == { axis[i] : i \in 1..Len(axis) }

\* A design is a point of the grid given to the engine.
OnGrid(d) ==
  /\ d.t_ss = 0
  /\ d.r_ll = 800 * Scale
  /\ d.t_ll \in AxisValues(grid_t_ll)
  /\ d.r_ss \in AxisValues(grid_r_ss)
  /\ d.r_ss % 12500 = 0
  /\ 12500 <= d.r_ss /\ d.r_ss <= 787500

\* C17: every design the staircase passes to engine.update is a point of
\* the engine's design grid, for every response sequence and every main
\* trial index below 42: t_ss = 0, r_ll = 800, t_ll one of the grid's t_ll
\* values and r_ss a multiple of 12.5 with 12.5 <= r_ss <= 787.5.
C17_UpdatesOnGrid ==
  /\ (phase = "main" /\ pc \in {"update", "append"}) => OnGrid(design)
  /\ \A i \in 1..Len(engine_obs) :
       /\ i <= BlockLen * Len(delays)
       /\ OnGrid(MainShown[i].design)
       /\ engine_obs[i].t_ll \in AxisValues(grid_t_ll)
       /\ engine_obs[i].r_ss \in AxisValues(grid_r_ss)
  /\ \A b \in 1..Len(delays) : delays[b] \in AxisValues(grid_t_ll)

C17_Witness ==
  /\ Len(engine_obs) = BlockLen * Len(delays)
  /\ engine_obs[BlockLen * Len(delays)].t_ll = 520000
  /\ engine_obs[BlockLen * Len(delays)].r_ss = 12500
  /\ engine_obs[BlockLen].r_ss = 12500

\* The design of the main trial of 0-based index i as a function of the
\* responses of the main trials before it, and of nothing else.
DesignFromMainResponses(shown, i) ==
  [t_ss |-> 0,
   t_ll |-> delays[(i \div BlockLen) + 1],
   r_ss |-> 400 * Scale + SignedSteps(shown, i - PosInBlock(i), PosInBlock(i)),
   r_ll |-> 800 * Scale]

\* C18: the sequence of main designs is a function of the main responses
\* only: whatever the number of practice trials, their designs and their
\* responses (the last of which is still in `response` and `design` when the
\* main loop starts), main trial i is shown with the design computed from
\* the responses of the main trials before it.
C18_MainDesignsFromMainResponsesOnly ==
  /\ \A t \in 1..Len(MainShown) :
       MainShown[t].design = DesignFromMainResponses(MainShown, t - 1)
  /\ (phase = "main" /\ pc = "run")
       => design = [t_ss |-> 0,
                    t_ll |-> delays[(trial \div BlockLen) + 1],
                    r_ss |-> 400 * Scale
                             + SignedSteps(MainShown, trial - PosInBlock(trial),
                                           PosInBlock(trial)),
                    r_ll |-> 800 * Scale]

C18_Witness ==
  /\ Len(PracShown) = 1
  /\ PracShown[1].response = 0
  /\ PracShown[1].design.r_ss # 400 * Scale
  /\ Len(MainShown) >= 2
  /\ MainShown[1].response = 1
  /\ MainShown[1].design.r_ss = 400 * Scale
  /\ MainShown[2].design.r_ss = 600 * Scale

====
